---- MODULE Spec2Model ----
(***************************************************************************)
(* Model of src/src/wasm/metaball-contour.c: the Gaussian bridge-field     *)
(* accumulator (add_bridge_field) and the marching-squares contour         *)
(* extractor (marching_squares).                                           *)
(*                                                                         *)
(* Numbers.  The C code computes in binary32.  The model computes in exact *)
(* arithmetic: a float is a reduced rational <<n, d>> with d > 0.  Three   *)
(* kinds of quantity need more than a rational:                            *)
(*  - sqrtf: a non-negative real whose square is rational is carried as    *)
(*    its square (edgeLen as lenSq, bridgeSigma as bridgeSigmaSq, cutoff   *)
(*    as cutoffSq); floorf/ceilf of (rational -/+ such a root) are found   *)
(*    by comparing squares.                                                *)
(*  - expf: exp(-q) for distinct rationals q are linearly independent over *)
(*    the rationals, so a grid value G + SUM exp(-q_k) is carried exactly  *)
(*    as [rat |-> G + #{k : q_k = 0}, terms |-> bag of the q_k # 0].       *)
(*  - grid values of marching_squares are k * 10^(-decexp) for integers k, *)
(*    so that both v = 10 and differences below 1e-10 are representable.   *)
(* Rounding of binary32 and conversions of values outside the range of int *)
(* are outside the model; the inputs drawn keep every (int) cast in range. *)
(***************************************************************************)
EXTENDS Integers, Sequences, FiniteSets, Bags, TLC

VARIABLES
    pc,             \* "run" while the exported function loops, "done" after return
    grid_values,    \* flat row-major grid, index 0 .. cols*rows-1
    cols, rows,
    origin_x, origin_y, cell_size,
    \* marching_squares
    threshold,      \* integer k: the threshold is k * 10^(-decexp)
    decexp,         \* decimal exponent shared by grid values and threshold
    segments_out,   \* flat output buffer
    seg_count,
    r, c,           \* loop counters of marching_squares
    ret,            \* returned value
    emitted,        \* history: emitted[k+1] = <<r, c, pairs[p][0], pairs[p][1]>> of segment k
    writeLog,       \* history: the indices of segments_out written, in order
    \* add_bridge_field
    mst_edges,      \* sequence of <<ax, ay, bx, by>>
    base_sigma,
    i,              \* edge loop counter
    grid0,          \* history: the grid at entry
    visitLog,       \* history: <<i, r, c>> of every inner-loop iteration
    accessLog,      \* history: <<i, r, c, r*cols + c>> of every grid element read or written
    fault           \* an access outside a buffer happened

vars == <<pc, grid_values, cols, rows, origin_x, origin_y, cell_size, threshold,
          decexp, segments_out, seg_count, r, c, ret, emitted, writeLog,
          mst_edges, base_sigma, i, grid0, visitLog, accessLog, fault>>

msVars == <<threshold, decexp, segments_out, seg_count, r, c, ret, emitted, writeLog>>
bfVars == <<mst_edges, base_sigma, i, grid0, visitLog, accessLog>>
geomVars == <<cols, rows, origin_x, origin_y, cell_size>>

(***************************************************************************)
(* Exact rational arithmetic.                                              *)
(***************************************************************************)
Abs(x) == IF x < 0 THEN -x ELSE x

RECURSIVE GCD(_, _)
GCD(a, b) == IF b = 0 THEN a ELSE GCD(b, a % b)

Rat(n, d) ==
    LET s == IF d < 0 THEN -1 ELSE 1
        g == GCD(Abs(n), Abs(d))
    IN  <<(s * n) \div g, (s * d) \div g>>

RInt(n) == <<n, 1>>

\* Sums and comparisons go through the least common denominator and products
\* cancel crosswise first, to keep the intermediate integers small.
RAdd(x, y) ==
    LET g == GCD(x[2], y[2])
    IN  Rat(x[1] * (y[2] \div g) + y[1] * (x[2] \div g), (x[2] \div g) * y[2])
RSub(x, y) == RAdd(x, <<-y[1], y[2]>>)
RMul(x, y) ==
    LET g1 == GCD(Abs(x[1]), y[2])
        g2 == GCD(Abs(y[1]), x[2])
    IN  <<(x[1] \div g1) * (y[1] \div g2), (x[2] \div g2) * (y[2] \div g1)>>
RDiv(x, y) == IF y[1] < 0 THEN RMul(x, <<-y[2], -y[1]>>) ELSE RMul(x, <<y[2], y[1]>>)
RNeg(x) == <<-x[1], x[2]>>
RLt(x, y) ==
    LET g == GCD(x[2], y[2])
    IN  x[1] * (y[2] \div g) < y[1] * (x[2] \div g)
RLeq(x, y) == ~RLt(y, x)
RMin(x, y) == IF RLt(y, x) THEN y ELSE x
RMax(x, y) == IF RLt(x, y) THEN y ELSE x
RSq(x) == RMul(x, x)
RFloor(x) == x[1] \div x[2]
RCeil(x) == -((-x[1]) \div x[2])
RZero == <<0, 1>>

(***************************************************************************)
(* marching_squares                                                        *)
(***************************************************************************)

\* Bound of the contour extractor: grids with cols * rows <= MaxCells samples.
MaxCells == 9

RECURSIVE Pow10(_)
Pow10(n) == IF n <= 0 THEN 1 ELSE 10 * Pow10(n - 1)

\* The flat-edge tolerance of lerp1d is 10^(-EpsExp).
EpsExp == 10

\* fabsf(d) < 1e-10f for d = dk * 10^(-decexp), dk an integer
TinyDiff(dk) ==
    IF decexp <= EpsExp THEN dk = 0
    ELSE Abs(dk) < Pow10(decexp - EpsExp)

\* lerp1d testing d == 0 instead of fabsf(d) < 1e-10f
lerp1d_M(v0, v1, th) ==
    IF v1 = v0 THEN <<1, 2>> ELSE Rat(th - v0, v1 - v0)

lerp1d(v0, v1, th) ==
    LET d == v1 - v0
    IN  IF TinyDiff(d) THEN <<1, 2>> ELSE Rat(th - v0, d)

\* EDGE_TABLE with the entry of case 6 taken from case 2
EDGE_TABLE_M ==
    << <<<<-1,-1>>, <<-1,-1>>>>,
       <<<< 3, 2>>, <<-1,-1>>>>,
       <<<< 2, 1>>, <<-1,-1>>>>,
       <<<< 3, 1>>, <<-1,-1>>>>,
       <<<< 1, 0>>, <<-1,-1>>>>,
       <<<< 3, 0>>, << 1, 2>>>>,
       <<<< 2, 1>>, <<-1,-1>>>>,
       <<<< 3, 0>>, <<-1,-1>>>>,
       <<<< 0, 3>>, <<-1,-1>>>>,
       <<<< 0, 2>>, <<-1,-1>>>>,
       <<<< 0, 1>>, << 2, 3>>>>,
       <<<< 0, 1>>, <<-1,-1>>>>,
       <<<< 1, 3>>, <<-1,-1>>>>,
       <<<< 1, 2>>, <<-1,-1>>>>,
       <<<< 2, 3>>, <<-1,-1>>>>,
       <<<<-1,-1>>, <<-1,-1>>>> >>

EDGE_TABLE ==
    << <<<<-1,-1>>, <<-1,-1>>>>,
       <<<< 3, 2>>, <<-1,-1>>>>,
       <<<< 2, 1>>, <<-1,-1>>>>,
       <<<< 3, 1>>, <<-1,-1>>>>,
       <<<< 1, 0>>, <<-1,-1>>>>,
       <<<< 3, 0>>, << 1, 2>>>>,
       <<<< 2, 0>>, <<-1,-1>>>>,
       <<<< 3, 0>>, <<-1,-1>>>>,
       <<<< 0, 3>>, <<-1,-1>>>>,
       <<<< 0, 2>>, <<-1,-1>>>>,
       <<<< 0, 1>>, << 2, 3>>>>,
       <<<< 0, 1>>, <<-1,-1>>>>,
       <<<< 1, 3>>, <<-1,-1>>>>,
       <<<< 1, 2>>, <<-1,-1>>>>,
       <<<< 2, 3>>, <<-1,-1>>>>,
       <<<<-1,-1>>, <<-1,-1>>>> >>

NUM_PAIRS == <<0, 1, 1, 1, 1, 2, 1, 1, 1, 1, 2, 1, 1, 1, 1, 0>>

\* grid_values[rr * cols + cc] of the four corners of cell (rr, cc)
TL(g, rr, cc) == g[rr * cols + cc]
TR(g, rr, cc) == g[rr * cols + cc + 1]
BR(g, rr, cc) == g[(rr + 1) * cols + cc + 1]
BL(g, rr, cc) == g[(rr + 1) * cols + cc]

Inside(v) == IF v >= threshold THEN 1 ELSE 0

\* caseIndex with the bits of the bottom corners exchanged
caseIndex_M(g, rr, cc) ==
    Inside(TL(g, rr, cc)) * 8 + Inside(TR(g, rr, cc)) * 4
        + Inside(BL(g, rr, cc)) * 2 + Inside(BR(g, rr, cc))

caseIndex(g, rr, cc) ==
    Inside(TL(g, rr, cc)) * 8 + Inside(TR(g, rr, cc)) * 4
        + Inside(BR(g, rr, cc)) * 2 + Inside(BL(g, rr, cc))

\* center >= threshold, center = (tl + tr + br + bl) / 4.0f
CenterInside(g, rr, cc) ==
    LET center == Rat(TL(g, rr, cc) + TR(g, rr, cc) + BR(g, rr, cc) + BL(g, rr, cc), 4)
    IN  RLeq(RInt(threshold), center)

\* The pairs array of cell (rr, cc) after the saddle disambiguation.
SaddlePairs(ci, centerIn) ==
    IF ci = 5
    THEN IF centerIn THEN <<<<3, 2>>, <<1, 0>>>> ELSE <<<<3, 0>>, <<1, 2>>>>
    ELSE IF centerIn THEN <<<<0, 3>>, <<2, 1>>>> ELSE <<<<0, 1>>, <<2, 3>>>>

CellPairs(g, rr, cc) ==
    LET ci == caseIndex(g, rr, cc)
    IN  IF ci = 5 \/ ci = 10
        THEN SaddlePairs(ci, CenterInside(g, rr, cc))
        ELSE EDGE_TABLE[ci + 1]

\* get_edge_point interpolating the left edge from bl to tl
get_edge_point_M(g, rr, cc, edge) ==
    LET tl == TL(g, rr, cc)
        tr == TR(g, rr, cc)
        bl == BL(g, rr, cc)
        br == BR(g, rr, cc)
        x0 == RAdd(origin_x, RMul(RInt(cc), cell_size))
        y0 == RAdd(origin_y, RMul(RInt(rr), cell_size))
        x1 == RAdd(x0, cell_size)
        y1 == RAdd(y0, cell_size)
    IN  CASE edge = 0 -> <<RAdd(x0, RMul(lerp1d(tl, tr, threshold), cell_size)), y0>>
          [] edge = 1 -> <<x1, RAdd(y0, RMul(lerp1d(tr, br, threshold), cell_size))>>
          [] edge = 2 -> <<RAdd(x0, RMul(lerp1d(bl, br, threshold), cell_size)), y1>>
          [] edge = 3 -> <<x0, RAdd(y0, RMul(lerp1d(bl, tl, threshold), cell_size))>>

get_edge_point(g, rr, cc, edge) ==
    LET tl == TL(g, rr, cc)
        tr == TR(g, rr, cc)
        bl == BL(g, rr, cc)
        br == BR(g, rr, cc)
        x0 == RAdd(origin_x, RMul(RInt(cc), cell_size))
        y0 == RAdd(origin_y, RMul(RInt(rr), cell_size))
        x1 == RAdd(x0, cell_size)
        y1 == RAdd(y0, cell_size)
    IN  CASE edge = 0 -> <<RAdd(x0, RMul(lerp1d(tl, tr, threshold), cell_size)), y0>>
          [] edge = 1 -> <<x1, RAdd(y0, RMul(lerp1d(tr, br, threshold), cell_size))>>
          [] edge = 2 -> <<RAdd(x0, RMul(lerp1d(bl, br, threshold), cell_size)), y1>>
          [] edge = 3 -> <<x0, RAdd(y0, RMul(lerp1d(tl, bl, threshold), cell_size))>>

\* Number of pairs the inner loop of cell (rr, cc) runs over.
NumPairs(g, rr, cc) ==
    LET ci == caseIndex(g, rr, cc)
    IN  IF ci = 0 \/ ci = 15 THEN 0 ELSE NUM_PAIRS[ci + 1]

\* SegIndex with seg_count advanced once per cell instead of once per pair
SegIndex_M(sc, p, k) == sc * 4 + k

\* segments_out index of float k of the p-th pair (p from 0) of a cell entered
\* with seg_count = sc: seg_count * 4 + k, seg_count++ after each pair.
SegIndex(sc, p, k) == (sc + p) * 4 + k

NoFloat == <<0, 0>>     \* content of a segments_out slot never written

\* The floats the cell (rr, cc) writes, in order: <<index, value>> pairs.
CellWrites(g, sc, rr, cc) ==
    LET n == NumPairs(g, rr, cc)
        pairs == CellPairs(g, rr, cc)
        W(j) == LET p == (j - 1) \div 4
                    k == (j - 1) % 4
                    pt == get_edge_point(g, rr, cc, pairs[p + 1][(k \div 2) + 1])
                IN  <<SegIndex(sc, p, k), pt[(k % 2) + 1]>>
    IN  [j \in 1 .. 4 * n |-> W(j)]

CellEmits(g, rr, cc) ==
    LET n == NumPairs(g, rr, cc)
        pairs == CellPairs(g, rr, cc)
    IN  [p \in 1 .. n |-> <<rr, cc, pairs[p][1], pairs[p][2]>>]

RECURSIVE ApplyWrites(_, _)
ApplyWrites(buf, ws) ==
    IF ws = <<>> THEN buf
    ELSE ApplyWrites(
            IF Head(ws)[1] \in DOMAIN buf
            THEN [buf EXCEPT ![Head(ws)[1]] = Head(ws)[2]] ELSE buf,
            Tail(ws))

\* One scenario fixes the two values of outside samples, the two values of
\* inside samples (by parity of the flat index), threshold, scale, geometry.
Scenarios ==
    { [lo |-> <<0, 2>>, hi |-> <<4, 10>>, th |-> 3, de |-> 0,
       ox |-> <<-3, 1>>, oy |-> <<2, 1>>, cs |-> <<2, 1>>],
      [lo |-> <<0, 0>>, hi |-> <<4, 4>>, th |-> 3, de |-> 0,
       ox |-> <<0, 1>>, oy |-> <<0, 1>>, cs |-> <<1, 1>>],
      [lo |-> <<0, 0>>, hi |-> <<10, 10>>, th |-> 5, de |-> 1,
       ox |-> <<0, 1>>, oy |-> <<0, 1>>, cs |-> <<1, 2>>],
      [lo |-> <<0, 2>>, hi |-> <<4, 10>>, th |-> 3, de |-> 11,
       ox |-> <<1, 2>>, oy |-> <<-1, 1>>, cs |-> <<3, 1>>],
      [lo |-> <<-6, -2>>, hi |-> <<0, 2>>, th |-> 0, de |-> 0,
       ox |-> <<0, 1>>, oy |-> <<0, 1>>, cs |-> <<1, 1>>] }

Shapes == { s \in (2 .. MaxCells) \X (2 .. MaxCells) : s[1] * s[2] <= MaxCells }

InitMS ==
    \E sh \in Shapes, sc \in Scenarios :
      \E mask \in [0 .. sh[1] * sh[2] - 1 -> BOOLEAN] :
        /\ cols = sh[1]
        /\ rows = sh[2]
        /\ grid_values = [ix \in 0 .. sh[1] * sh[2] - 1 |->
                            IF mask[ix] THEN sc.hi[(ix % 2) + 1] ELSE sc.lo[(ix % 2) + 1]]
        /\ threshold = sc.th
        /\ decexp = sc.de
        /\ origin_x = sc.ox
        /\ origin_y = sc.oy
        /\ cell_size = sc.cs
        /\ segments_out = [ix \in 0 .. 8 * (sh[1] - 1) * (sh[2] - 1) - 1 |-> NoFloat]
        /\ seg_count = 0
        /\ r = 0
        /\ c = 0
        /\ ret = -1
        /\ emitted = <<>>
        /\ writeLog = <<>>
        /\ pc = "run"
        /\ fault = FALSE
        /\ mst_edges = <<>>
        /\ base_sigma = RZero
        /\ i = 0
        /\ grid0 = <<>>
        /\ visitLog = {}
        /\ accessLog = {}

\* One iteration of the inner loop over c: cell (r, c).
MS_Cell ==
    /\ pc = "run"
    /\ r < rows - 1
    /\ c < cols - 1
    /\ LET ws == CellWrites(grid_values, seg_count, r, c)
       IN  /\ segments_out' = ApplyWrites(segments_out, ws)
           /\ writeLog' = writeLog \o [j \in 1 .. Len(ws) |-> ws[j][1]]
           /\ fault' = (fault \/ \E j \in 1 .. Len(ws) : ws[j][1] \notin DOMAIN segments_out)
    /\ emitted' = emitted \o CellEmits(grid_values, r, c)
    /\ seg_count' = seg_count + NumPairs(grid_values, r, c)
    /\ c' = c + 1
    /\ UNCHANGED <<pc, grid_values, geomVars, threshold, decexp, r, ret, bfVars>>

\* The inner loop ends: next row.
MS_NextRow ==
    /\ pc = "run"
    /\ r < rows - 1
    /\ c >= cols - 1
    /\ r' = r + 1
    /\ c' = 0
    /\ UNCHANGED <<pc, grid_values, geomVars, threshold, decexp, segments_out,
                   seg_count, ret, emitted, writeLog, bfVars, fault>>

MS_Return ==
    /\ pc = "run"
    /\ r >= rows - 1
    /\ ret' = seg_count
    /\ pc' = "done"
    /\ UNCHANGED <<grid_values, geomVars, threshold, decexp, segments_out,
                   seg_count, r, c, emitted, writeLog, bfVars, fault>>

NextMS == MS_Cell \/ MS_NextRow \/ MS_Return

SpecMS == InitMS /\ [][NextMS]_vars

(***************************************************************************)
(* add_bridge_field                                                        *)
(***************************************************************************)

\* Bound of the field accumulator: at most MaxEdges bridge edges per call.
MaxEdges == 2

\* x < 10^(-e) for a rational x = n / d
RECURSIVE LtPow10Neg(_, _, _)
LtPow10Neg(n, d, e) ==
    IF n <= 0 THEN n < 0 \/ d > 0
    ELSE IF n >= d THEN FALSE
    ELSE IF e = 0 THEN TRUE
    ELSE LtPow10Neg(10 * n, d, e - 1)

\* The degenerate-segment tolerance of dist_to_segment_sq is 10^(-LenSqEpsExp).
LenSqEpsExp == 12

dist_to_segment_sq(px, py, ax, ay, bx, by) ==
    LET dx == RSub(bx, ax)
        dy == RSub(by, ay)
        lenSq == RAdd(RMul(dx, dx), RMul(dy, dy))
    IN  IF LtPow10Neg(lenSq[1], lenSq[2], LenSqEpsExp)
        THEN LET ex == RSub(px, ax)
                 ey == RSub(py, ay)
             IN  RAdd(RMul(ex, ex), RMul(ey, ey))
        ELSE LET t0 == RDiv(RAdd(RMul(RSub(px, ax), dx), RMul(RSub(py, ay), dy)), lenSq)
                 t1 == IF RLt(t0, <<0, 1>>) THEN <<0, 1>> ELSE t0
                 t == IF RLt(<<1, 1>>, t1) THEN <<1, 1>> ELSE t1
                 nearX == RAdd(ax, RMul(t, dx))
                 nearY == RAdd(ay, RMul(t, dy))
                 ex == RSub(px, nearX)
                 ey == RSub(py, nearY)
             IN  RAdd(RMul(ex, ex), RMul(ey, ey))

\* fmaxf(base_sigma, cell_size * 2.5f)
BaseSigma(bs, cs) == RMax(bs, RMul(cs, <<5, 2>>))

\* Square of bridgeSigma = fmaxf(baseSigma, edgeLen * 0.12f), edgeLen = sqrtf(lenSq)
BridgeSigmaSq(baseSigma, lenSq) ==
    LET scaled == RMul(lenSq, <<9, 625>>)
    IN  IF RLt(baseSigma, <<0, 1>>) THEN scaled ELSE RMax(RSq(baseSigma), scaled)

\* CutoffSq with cutoff = 4.0f * bridgeSigma
CutoffSq_M(sigmaSq) == RMul(<<16, 1>>, sigmaSq)

\* Square of cutoff = 3.0f * bridgeSigma
CutoffSq(sigmaSq) == RMul(<<9, 1>>, sigmaSq)

\* (int)floorf((m - root) / cs) for root = sqrt(rootSq) >= 0 and cs > 0: the
\* greatest k with k * cs <= m - root.
RECURSIVE FloorDown(_, _, _, _)
FloorDown(k, m, rootSq, cs) ==
    LET gap == RSub(m, RMul(RInt(k), cs))
    IN  IF RLeq(<<0, 1>>, gap) /\ RLeq(rootSq, RSq(gap)) THEN k
        ELSE FloorDown(k - 1, m, rootSq, cs)

\* FloorSubRoot without the cutoff: the box minimum not expanded
FloorSubRoot_M(m, rootSq, cs) == RFloor(RDiv(m, cs))

FloorSubRoot(m, rootSq, cs) == FloorDown(RFloor(RDiv(m, cs)), m, rootSq, cs)

\* (int)ceilf((m + root) / cs): the least k with k * cs >= m + root.
RECURSIVE CeilUp(_, _, _, _)
CeilUp(k, m, rootSq, cs) ==
    LET gap == RSub(RMul(RInt(k), cs), m)
    IN  IF RLeq(<<0, 1>>, gap) /\ RLeq(rootSq, RSq(gap)) THEN k
        ELSE CeilUp(k + 1, m, rootSq, cs)

CeilAddRoot(m, rootSq, cs) == CeilUp(RCeil(RDiv(m, cs)), m, rootSq, cs)

\* ClampMin without the clamp
ClampMin_M(k) == k

\* if (rMin < 0) rMin = 0;  if (rMax > n - 1) rMax = n - 1;
ClampMin(k) == IF k < 0 THEN 0 ELSE k
ClampMax(k, n) == IF k > n - 1 THEN n - 1 ELSE k

\* The inclusive row and column range visited for one edge.
EdgeRange(e, cs, ox, oy, nc, nr, cutoffSq) ==
    [rMin |-> ClampMin(FloorSubRoot(RSub(RMin(e[2], e[4]), oy), cutoffSq, cs)),
     rMax |-> ClampMax(CeilAddRoot(RSub(RMax(e[2], e[4]), oy), cutoffSq, cs), nr),
     cMin |-> ClampMin(FloorSubRoot(RSub(RMin(e[1], e[3]), ox), cutoffSq, cs)),
     cMax |-> ClampMax(CeilAddRoot(RSub(RMax(e[1], e[3]), ox), cutoffSq, cs), nc)]

\* Per-edge quantities computed before the cell loops.
EdgeParams(e) ==
    LET edx == RSub(e[3], e[1])
        edy == RSub(e[4], e[2])
        lenSq == RAdd(RMul(edx, edx), RMul(edy, edy))
        sigmaSq == BridgeSigmaSq(BaseSigma(base_sigma, cell_size), lenSq)
        cutSq == CutoffSq(sigmaSq)
    IN  [sigmaSq |-> sigmaSq,
         invTwoSigmaSq |-> RDiv(<<1, 1>>, RMul(<<2, 1>>, sigmaSq)),
         cutoffSq |-> cutSq,
         range |-> EdgeRange(e, cell_size, origin_x, origin_y, cols, rows, cutSq)]

\* The cells (r, c) of the two nested loops, in loop order.
LoopCells(rg) ==
    LET nR == IF rg.rMax >= rg.rMin THEN rg.rMax - rg.rMin + 1 ELSE 0
        nC == IF rg.cMax >= rg.cMin THEN rg.cMax - rg.cMin + 1 ELSE 0
    IN  [j \in 1 .. nR * nC |-> <<rg.rMin + ((j - 1) \div nC), rg.cMin + ((j - 1) % nC)>>]

\* expf(-q): 1 for q = 0, else the term exp(-q)
ExpNeg(q) ==
    IF q[1] = 0 THEN [rat |-> 1, terms |-> EmptyBag]
    ELSE [rat |-> 0, terms |-> SetToBag({q})]

\* Accumulate by overwrite: grid_values[ix] = val
Accumulate_M(old, val) == val

\* grid_values[ix] += val
Accumulate(old, val) == [rat |-> old.rat + val.rat, terms |-> old.terms (+) val.terms]

\* dSq of the sample point of cell (rr, cc) to edge e
CellDistSq(rr, cc, e) ==
    dist_to_segment_sq(RAdd(origin_x, RMul(RInt(cc), cell_size)),
                       RAdd(origin_y, RMul(RInt(rr), cell_size)),
                       e[1], e[2], e[3], e[4])

\* The cells of the loops whose sample lies within the cutoff (dSq < cutoffSq),
\* in loop order, as <<r, c, dSq>>: those whose grid element is read and written.
Hits(seq, e, ep) ==
    SelectSeq([j \in 1 .. Len(seq) |-> <<seq[j][1], seq[j][2], CellDistSq(seq[j][1], seq[j][2], e)>>],
              LAMBDA h : RLt(h[3], ep.cutoffSq))

\* grid_values[ix] += expf(-dSq * invTwoSigmaSq) for each cell of hs, in order
RECURSIVE AddAll(_, _, _)
AddAll(v, hs, ep) ==
    IF hs = <<>> THEN v
    ELSE AddAll(Accumulate(v, ExpNeg(RMul(Head(hs)[3], ep.invTwoSigmaSq))), Tail(hs), ep)

\* The grid after the two nested loops of one edge: element ix receives the
\* additions of the cells (r, c) of hs with r * cols + c = ix.
LoopBody(g, hs, ep) ==
    [ix \in DOMAIN g |->
        AddAll(g[ix], SelectSeq(hs, LAMBDA h : h[1] * cols + h[2] = ix), ep)]

\* The grid elements the loops read and write.
Accesses(k, hs) ==
    { <<k, hs[j][1], hs[j][2], hs[j][1] * cols + hs[j][2]>> : j \in 1 .. Len(hs) }

\* The grid after the loops of one edge e, from grid g.
EdgeStep(g, e) ==
    CHOOSE res \in { LoopBody(g, Hits(LoopCells(ep.range), e, ep), ep) : ep \in {EdgeParams(e)} } : TRUE

\* The grid after a whole call add_bridge_field(g, ..., es, Len(es), base_sigma).
RECURSIVE add_bridge_field(_, _)
add_bridge_field(g, es) ==
    IF es = <<>> THEN g ELSE add_bridge_field(EdgeStep(g, Head(es)), Tail(es))

Edge(ax, ay, bx, by) == <<RInt(ax), RInt(ay), RInt(bx), RInt(by)>>

\* Edges drawn: zero-length, short, long (sigma set by the length), diagonal
\* with irrational cutoff, crossing the grid, ending just short of the grid,
\* and wholly outside it.
EdgeSet ==
    { Edge(1, 0, 1, 0),
      Edge(-3, 0, 1, 0),
      Edge(-25, 0, 0, 0),
      Edge(-21, -1, 0, 1),
      Edge(0, 0, 2, 1),
      Edge(1, -2, 1, 3),
      <<RInt(-12), RInt(0), <<-33, 4>>, RInt(0)>>,
      Edge(-30, -30, -20, -30),
      Edge(14, 5, 30, 5) }

\* Grid shapes, geometries and base_sigma drawn together.
BFConfigs ==
    { [cols |-> 1, rows |-> 1, ox |-> <<0, 1>>, oy |-> <<0, 1>>, cs |-> <<1, 1>>, bs |-> <<0, 1>>],
      [cols |-> 12, rows |-> 2, ox |-> <<0, 1>>, oy |-> <<0, 1>>, cs |-> <<1, 1>>, bs |-> <<0, 1>>],
      [cols |-> 12, rows |-> 2, ox |-> <<0, 1>>, oy |-> <<0, 1>>, cs |-> <<1, 1>>, bs |-> <<4, 1>>],
      [cols |-> 2, rows |-> 12, ox |-> <<0, 1>>, oy |-> <<0, 1>>, cs |-> <<1, 1>>, bs |-> <<-1, 1>>],
      [cols |-> 12, rows |-> 2, ox |-> <<-2, 1>>, oy |-> <<-1, 2>>, cs |-> <<3, 2>>, bs |-> <<0, 1>>],
      [cols |-> 2, rows |-> 12, ox |-> <<-2, 1>>, oy |-> <<-1, 2>>, cs |-> <<3, 2>>, bs |-> <<4, 1>>] }

RECURSIVE SeqsUpTo(_, _)
SeqsUpTo(S, n) ==
    IF n = 0 THEN { <<>> }
    ELSE LET shorter == SeqsUpTo(S, n - 1)
         IN  shorter \cup { Append(q, x) : q \in shorter, x \in S }

InitBF ==
    \E cf \in BFConfigs, es \in SeqsUpTo(EdgeSet, MaxEdges) :
        /\ cols = cf.cols
        /\ rows = cf.rows
        /\ origin_x = cf.ox
        /\ origin_y = cf.oy
        /\ cell_size = cf.cs
        /\ base_sigma = cf.bs
        /\ mst_edges = es
        /\ grid_values = [ix \in 0 .. cf.cols * cf.rows - 1 |-> [rat |-> ix % 3, terms |-> EmptyBag]]
        /\ grid0 = [ix \in 0 .. cf.cols * cf.rows - 1 |-> [rat |-> ix % 3, terms |-> EmptyBag]]
        /\ i = 0
        /\ visitLog = {}
        /\ accessLog = {}
        /\ fault = FALSE
        /\ pc = "run"
        /\ threshold = 0
        /\ decexp = 0
        /\ segments_out = <<>>
        /\ seg_count = 0
        /\ r = 0
        /\ c = 0
        /\ ret = -1
        /\ emitted = <<>>
        /\ writeLog = <<>>

\* One iteration of the loop over the edges: edge i.
BF_Edge ==
    /\ pc = "run"
    /\ i < Len(mst_edges)
    /\ \E ep \in {EdgeParams(mst_edges[i + 1])} :
         \E seq \in {LoopCells(ep.range)} :
           \E hs \in {Hits(seq, mst_edges[i + 1], ep)} :
             /\ grid_values' = LoopBody(grid_values, hs, ep)
             /\ visitLog' = visitLog \cup { <<i, seq[j][1], seq[j][2]>> : j \in 1 .. Len(seq) }
             /\ accessLog' = accessLog \cup Accesses(i, hs)
             /\ fault' = (fault \/ \E a \in Accesses(i, hs) : a[4] \notin DOMAIN grid_values)
    /\ i' = i + 1
    /\ UNCHANGED <<pc, geomVars, mst_edges, base_sigma, grid0, msVars>>

BF_Return ==
    /\ pc = "run"
    /\ i >= Len(mst_edges)
    /\ pc' = "done"
    /\ UNCHANGED <<grid_values, geomVars, bfVars, msVars, fault>>

NextBF == BF_Edge \/ BF_Return

SpecBF == InitBF /\ [][NextBF]_vars

(***************************************************************************)
(* Properties of marching_squares.                                         *)
(***************************************************************************)
Segs == 1 .. Len(emitted)

\* Endpoint j (0 or 1) of segment k (from 1) as written to segments_out.
SegPoint(k, j) ==
    <<segments_out[4 * (k - 1) + 2 * j], segments_out[4 * (k - 1) + 2 * j + 1]>>

\* Cells whose loop iteration has completed.
Processed(rr, cc) ==
    /\ rr \in 0 .. rows - 2
    /\ cc \in 0 .. cols - 2
    /\ (pc = "done" \/ rr < r \/ (rr = r /\ cc < c))

ProcessedCells == { cell \in (0 .. rows - 2) \X (0 .. cols - 2) : Processed(cell[1], cell[2]) }

CellSegs(rr, cc) == { k \in Segs : emitted[k][1] = rr /\ emitted[k][2] = cc }

\* Inside/outside of the four corners, [corner name |-> BOOLEAN].
Corner(rr, cc) ==
    [tl |-> grid_values[rr * cols + cc] >= threshold,
     tr |-> grid_values[rr * cols + cc + 1] >= threshold,
     br |-> grid_values[(rr + 1) * cols + cc + 1] >= threshold,
     bl |-> grid_values[(rr + 1) * cols + cc] >= threshold]

CaseOf(rr, cc) ==
    LET k == Corner(rr, cc)
        B(b) == IF b THEN 1 ELSE 0
    IN  B(k.tl) * 8 + B(k.tr) * 4 + B(k.br) * 2 + B(k.bl)

\* The two corners bounding each cell edge (0=top, 1=right, 2=bottom, 3=left),
\* in the direction of interpolation.
EdgeEnds == <<<<"tl", "tr">>, <<"tr", "br">>, <<"bl", "br">>, <<"tl", "bl">>>>

\* The two cell edges that meet at each corner.
EdgesAt == [tl |-> {0, 3}, tr |-> {0, 1}, br |-> {1, 2}, bl |-> {2, 3}]

CornerNames == {"tl", "tr", "br", "bl"}

SumGeqThreshold(rr, cc) ==
    grid_values[rr * cols + cc] + grid_values[rr * cols + cc + 1]
        + grid_values[(rr + 1) * cols + cc + 1] + grid_values[(rr + 1) * cols + cc]
      >= 4 * threshold

\* C1: in every saddle cell (case 5 or 10) each emitted segment joins the two
\* cell edges that meet at an outside corner when the average of the four
\* corners is >= threshold, and the two edges that meet at an inside corner
\* when the average is < threshold.
C1_SaddleResolution ==
    \A k \in Segs :
        LET rr == emitted[k][1]
            cc == emitted[k][2]
            es == {emitted[k][3], emitted[k][4]}
        IN  CaseOf(rr, cc) \in {5, 10} =>
              \E n \in CornerNames :
                 /\ es = EdgesAt[n]
                 /\ Corner(rr, cc)[n] = ~SumGeqThreshold(rr, cc)

\* Number of endpoints of the segments of cell (rr, cc) that lie on edge e.
EndpointsOn(rr, cc, e) ==
    Cardinality({ kj \in CellSegs(rr, cc) \X {3, 4} : emitted[kj[1]][kj[2]] = e })

ExpectedCount(ci) == IF ci \in {0, 15} THEN 0 ELSE IF ci \in {5, 10} THEN 2 ELSE 1

\* C2: every processed cell emits 0 segments in cases 0 and 15, 2 in cases 5
\* and 10, 1 otherwise; a cell edge whose corners are classified differently is
\* the endpoint of exactly one segment of the cell, any other edge of none.
C2_CaseCoverage ==
    \A cell \in ProcessedCells :
        LET rr == cell[1]
            cc == cell[2]
            k == Corner(rr, cc)
        IN  /\ Cardinality(CellSegs(rr, cc)) = ExpectedCount(CaseOf(rr, cc))
            /\ \A e \in 0 .. 3 :
                 EndpointsOn(rr, cc, e) =
                    IF k[EdgeEnds[e + 1][1]] # k[EdgeEnds[e + 1][2]] THEN 1 ELSE 0

C2_Witness ==
    /\ pc = "done"
    /\ \E a, b, d \in ProcessedCells :
         /\ CaseOf(a[1], a[2]) = 10
         /\ CaseOf(b[1], b[2]) = 15
         /\ CaseOf(d[1], d[2]) = 6
    /\ C2_CaseCoverage

\* C3: the segments written so far fill exactly the floats 0 .. 4*seg_count-1,
\* each written once and in order, seg_count <= 2*(rows-1)*(cols-1), nothing is
\* written at or beyond 8*(rows-1)*(cols-1), and the value returned is the
\* number of segments written.
C3_OutputBound ==
    /\ ~fault
    /\ writeLog = [j \in 1 .. 4 * Len(emitted) |-> j - 1]
    /\ seg_count = Len(emitted)
    /\ seg_count <= 2 * (rows - 1) * (cols - 1)
    /\ \A j \in 1 .. Len(writeLog) : writeLog[j] < 8 * (rows - 1) * (cols - 1)
    /\ \A ix \in DOMAIN segments_out : (segments_out[ix] # NoFloat) <=> (ix < 4 * seg_count)
    /\ pc = "done" => ret = Len(emitted)

C3_Witness ==
    /\ pc = "done"
    /\ cols = 3
    /\ rows = 3
    /\ ret = 2 * (rows - 1) * (cols - 1)
    /\ Len(writeLog) = 8 * (rows - 1) * (cols - 1)

\* World position of sample (rr, cc).
SampleX(cc) == RAdd(origin_x, RMul(RInt(cc), cell_size))
SampleY(rr) == RAdd(origin_y, RMul(RInt(rr), cell_size))

\* Row/column offset of each corner inside its cell.
CornerOff == [tl |-> <<0, 0>>, tr |-> <<0, 1>>, br |-> <<1, 1>>, bl |-> <<1, 0>>]

CornerValue(rr, cc, n) == grid_values[(rr + CornerOff[n][1]) * cols + cc + CornerOff[n][2]]

\* |v1 - v0| < 1e-10 for values k * 10^(-decexp)
FlatEdge(v0, v1) == v1 = v0 \/ (decexp > 10 /\ Abs(v1 - v0) < Pow10(decexp - 10))

\* The interpolation parameter the contract prescribes.
ContractT(v0, v1) == IF FlatEdge(v0, v1) THEN <<1, 2>> ELSE Rat(threshold - v0, v1 - v0)

\* The point at parameter t along edge e of cell (rr, cc), from its start corner.
PointAlong(rr, cc, e, t) ==
    LET from == EdgeEnds[e + 1][1]
        sx == SampleX(cc + CornerOff[from][2])
        sy == SampleY(rr + CornerOff[from][1])
    IN  IF e \in {0, 2} THEN <<RAdd(sx, RMul(t, cell_size)), sy>>
        ELSE <<sx, RAdd(sy, RMul(t, cell_size))>>

\* C6: each endpoint of each emitted segment lies at the start corner of its
\* edge plus t * cell_size along the edge, t = (threshold - v0) / (v1 - v0)
\* when |v1 - v0| >= 1e-10 and t = 1/2 otherwise; with v0 = 0, v1 = 10 and
\* threshold = 3 the parameter is 3/10.
C6_Interpolation ==
    \A k \in Segs : \A j \in {0, 1} :
        LET rr == emitted[k][1]
            cc == emitted[k][2]
            e == emitted[k][3 + j]
            v0 == CornerValue(rr, cc, EdgeEnds[e + 1][1])
            v1 == CornerValue(rr, cc, EdgeEnds[e + 1][2])
        IN  /\ SegPoint(k, j) = PointAlong(rr, cc, e, ContractT(v0, v1))
            /\ (decexp = 0 /\ v0 = 0 /\ v1 = 10 /\ threshold = 3)
                  => SegPoint(k, j) = PointAlong(rr, cc, e, <<3, 10>>)

C6_Witness ==
    /\ decexp = 0
    /\ threshold = 3
    /\ cell_size # <<1, 1>>
    /\ \E k \in Segs : \E j \in {0, 1} :
          LET rr == emitted[k][1]
              cc == emitted[k][2]
              e == emitted[k][3 + j]
          IN  /\ CornerValue(rr, cc, EdgeEnds[e + 1][1]) = 0
              /\ CornerValue(rr, cc, EdgeEnds[e + 1][2]) = 10
              /\ SegPoint(k, j) = PointAlong(rr, cc, e, <<3, 10>>)

\* A flat edge (0 < |v1 - v0| < 1e-10) referenced by an emitted segment.
C6_FlatReached ==
    \E k \in Segs : \E j \in {0, 1} :
        LET rr == emitted[k][1]
            cc == emitted[k][2]
            e == emitted[k][3 + j]
        IN  /\ FlatEdge(CornerValue(rr, cc, EdgeEnds[e + 1][1]),
                        CornerValue(rr, cc, EdgeEnds[e + 1][2]))
            /\ SegPoint(k, j) = PointAlong(rr, cc, e, <<1, 2>>)

\* Samples at or above the threshold.
InsideSamples == { ix \in DOMAIN grid_values : grid_values[ix] >= threshold }

IsInterior(ix) ==
    /\ ix \div cols \in 1 .. rows - 2
    /\ ix % cols \in 1 .. cols - 2

\* The midpoint of the grid edge between samples (r1, c1) and (r2, c2).
Mid(r1, c1, r2, c2) ==
    <<RDiv(RAdd(SampleX(c1), SampleX(c2)), <<2, 1>>),
      RDiv(RAdd(SampleY(r1), SampleY(r2)), <<2, 1>>)>>

SegEnds(k) == {SegPoint(k, 0), SegPoint(k, 1)}

\* The grid of the end-to-end scenario: 3x3, 0 everywhere, 1.0 at the center,
\* threshold 0.5 (values and threshold in tenths).
SinglePeakGrid ==
    /\ cols = 3
    /\ rows = 3
    /\ decexp = 1
    /\ threshold = 5
    /\ grid_values = [ix \in 0 .. 8 |-> IF ix = 4 THEN 10 ELSE 0]

\* C7: on the 3x3 single-peak grid marching_squares returns 4, one segment per
\* cell in the order (0,0), (0,1), (1,0), (1,1), joining the midpoints of the
\* four grid edges at the center sample into a closed diamond; and on any grid
\* whose only sample >= threshold is an interior one it returns 4, one segment
\* in each of the four cells touching that sample.
C7_SinglePeak ==
    pc = "done" =>
      /\ SinglePeakGrid =>
            LET up == Mid(0, 1, 1, 1)
                left == Mid(1, 0, 1, 1)
                right == Mid(1, 1, 1, 2)
                down == Mid(1, 1, 2, 1)
            IN  /\ ret = 4
                /\ [k \in 1 .. 4 |-> <<emitted[k][1], emitted[k][2]>>]
                      = <<<<0, 0>>, <<0, 1>>, <<1, 0>>, <<1, 1>>>>
                /\ SegEnds(1) = {up, left}
                /\ SegEnds(2) = {up, right}
                /\ SegEnds(3) = {left, down}
                /\ SegEnds(4) = {right, down}
                /\ \A m \in {up, left, right, down} :
                      Cardinality({k \in 1 .. 4 : m \in SegEnds(k)}) = 2
      /\ \A ix \in DOMAIN grid_values :
            (InsideSamples = {ix} /\ IsInterior(ix)) =>
               LET pr == ix \div cols
                   pcol == ix % cols
               IN  /\ ret = 4
                   /\ Len(emitted) = 4
                   /\ \A cell \in {pr - 1, pr} \X {pcol - 1, pcol} :
                         Cardinality(CellSegs(cell[1], cell[2])) = 1

C7_Witness ==
    /\ pc = "done"
    /\ SinglePeakGrid
    /\ ret = 4

\* Endpoints (as points) of the segments of cell (rr, cc) that lie on edge e.
PointsOn(rr, cc, e) ==
    { SegPoint(kj[1], kj[2] - 3) : kj \in { x \in CellSegs(rr, cc) \X {3, 4} : emitted[x[1]][x[2]] = e } }

\* The shared edge between two processed cells: e1 of (r1, c1) is e2 of (r2, c2).
SharedOk(r1, c1, e1, r2, c2, e2) ==
    LET k == Corner(r1, c1)
        crossing == k[EdgeEnds[e1 + 1][1]] # k[EdgeEnds[e1 + 1][2]]
    IN  IF crossing
        THEN /\ EndpointsOn(r1, c1, e1) = 1
             /\ EndpointsOn(r2, c2, e2) = 1
             /\ PointsOn(r1, c1, e1) = PointsOn(r2, c2, e2)
        ELSE /\ EndpointsOn(r1, c1, e1) = 0
             /\ EndpointsOn(r2, c2, e2) = 0

\* C10: for every grid edge shared by two adjacent cells, if its two samples
\* are classified differently each of the two cells has exactly one segment
\* endpoint on it and the two endpoints are the same point; if they are
\* classified alike neither cell has an endpoint on it.
C10_Watertight ==
    pc = "done" =>
      /\ \A rr \in 0 .. rows - 2 : \A cc \in 0 .. cols - 3 :
            SharedOk(rr, cc, 1, rr, cc + 1, 3)
      /\ \A rr \in 0 .. rows - 3 : \A cc \in 0 .. cols - 2 :
            SharedOk(rr, cc, 2, rr + 1, cc, 0)

C10_Witness ==
    /\ pc = "done"
    /\ cols = 3
    /\ rows = 3
    /\ Corner(0, 0).tr # Corner(0, 0).br
    /\ Corner(0, 0).bl # Corner(0, 0).br
    /\ PointsOn(0, 0, 1) = PointsOn(0, 1, 3)
    /\ PointsOn(0, 0, 2) = PointsOn(1, 0, 0)
    /\ Cardinality(PointsOn(0, 0, 1)) = 1
    /\ Cardinality(PointsOn(0, 0, 2)) = 1

(***************************************************************************)
(* Properties of add_bridge_field.                                         *)
(***************************************************************************)
GridCells == (0 .. rows - 1) \X (0 .. cols - 1)

\* Squared distance from the sample point of cell (rr, cc) to the segment of
\* edge e, by the cross product (perpendicular distance inside the segment's
\* span, distance to the nearer endpoint outside it).
TrueDistSq(rr, cc, e) ==
    LET px == SampleX(cc)
        py == SampleY(rr)
        dx == RSub(e[3], e[1])
        dy == RSub(e[4], e[2])
        wx == RSub(px, e[1])
        wy == RSub(py, e[2])
        vx == RSub(px, e[3])
        vy == RSub(py, e[4])
        lenSq == RAdd(RSq(dx), RSq(dy))
        dot == RAdd(RMul(wx, dx), RMul(wy, dy))
        cross == RSub(RMul(wx, dy), RMul(wy, dx))
    IN  IF lenSq = <<0, 1>> \/ RLeq(dot, <<0, 1>>) THEN RAdd(RSq(wx), RSq(wy))
        ELSE IF RLeq(lenSq, dot) THEN RAdd(RSq(vx), RSq(vy))
        ELSE RDiv(RSq(cross), lenSq)

\* Square of max(max(base_sigma, 2.5 * cell_size), 0.12 * edgeLength); the
\* inner maximum is positive because cell_size is.
ContractSigmaSq(e) ==
    LET inner == IF RLt(base_sigma, RMul(<<5, 2>>, cell_size))
                 THEN RMul(<<5, 2>>, cell_size) ELSE base_sigma
        lenSq == RAdd(RSq(RSub(e[3], e[1])), RSq(RSub(e[4], e[2])))
        bySq == RMul(Rat(144, 10000), lenSq)
    IN  IF RLt(RSq(inner), bySq) THEN bySq ELSE RSq(inner)

PlusOne(v) == [rat |-> v.rat + 1, terms |-> v.terms]

\* C4: after a call with a single edge, no cell whose sample point is farther
\* than 3 * bridgeSigma from the segment has its value changed, and every cell
\* whose sample point lies on the segment has exactly 1.0 added.
C4_CutoffContainment ==
    (pc = "done" /\ Len(mst_edges) = 1) =>
       \A sg \in {ContractSigmaSq(mst_edges[1])} :
         \A cell \in GridCells :
           \A d \in {TrueDistSq(cell[1], cell[2], mst_edges[1])} :
             LET ix == cell[1] * cols + cell[2]
             IN  /\ RLt(RMul(<<9, 1>>, sg), d) => grid_values[ix] = grid0[ix]
                 /\ d = <<0, 1>> => grid_values[ix] = PlusOne(grid0[ix])

C4_Witness ==
    /\ pc = "done"
    /\ Len(mst_edges) = 1
    /\ base_sigma = <<0, 1>>
    /\ RLt(RSq(RMul(<<5, 2>>, cell_size)), ContractSigmaSq(mst_edges[1]))
    /\ \E a, b, d \in GridCells :
         /\ TrueDistSq(a[1], a[2], mst_edges[1]) = <<0, 1>>
         /\ grid_values[a[1] * cols + a[2]] = PlusOne(grid0[a[1] * cols + a[2]])
         /\ RLt(RMul(<<9, 1>>, ContractSigmaSq(mst_edges[1])), TrueDistSq(b[1], b[2], mst_edges[1]))
         /\ grid_values[b[1] * cols + b[2]] = grid0[b[1] * cols + b[2]]
         /\ grid_values[d[1] * cols + d[2]].terms # EmptyBag
    /\ C4_CutoffContainment

\* v - w for grid values
Minus(v, w) == [rat |-> v.rat - w.rat, terms |-> v.terms (-) w.terms]

\* For each edge of the list, the grid a call with that edge alone gives from
\* the starting grid.
SingleCalls == [k \in DOMAIN mst_edges |-> add_bridge_field(grid0, <<mst_edges[k]>>)]

\* v plus, for each k in 1 .. n, what the call with edge k alone added at ix.
RECURSIVE PlusIncrements(_, _, _, _)
PlusIncrements(v, single, ix, n) ==
    IF n = 0 THEN v
    ELSE Accumulate(PlusIncrements(v, single, ix, n - 1), Minus(single[n][ix], grid0[ix]))

Reverse(q) == [j \in 1 .. Len(q) |-> q[Len(q) + 1 - j]]

DoneEdges == 0 .. i - 1

InGrid(rr, cc) == rr \in 0 .. rows - 1 /\ cc \in 0 .. cols - 1

\* The cutoff-expanded bounding box of edge e does not meet the rectangle of
\* sample points: it ends before the first or starts after the last row or
\* column.  cutoff is the root of cutSq.
Beyond(gap, cutSq) == RLt(<<0, 1>>, gap) /\ RLt(cutSq, RSq(gap))

BoxMissesGrid(e, cutSq) ==
    LET lastX == SampleX(cols - 1)
        lastY == SampleY(rows - 1)
    IN  \/ Beyond(RSub(origin_x, RMax(e[1], e[3])), cutSq)
        \/ Beyond(RSub(RMin(e[1], e[3]), lastX), cutSq)
        \/ Beyond(RSub(origin_y, RMax(e[2], e[4])), cutSq)
        \/ Beyond(RSub(RMin(e[2], e[4]), lastY), cutSq)

AccessesInRange ==
    /\ ~fault
    /\ \A a \in accessLog :
          /\ InGrid(a[2], a[3])
          /\ a[4] = a[2] * cols + a[3]
          /\ a[4] \in 0 .. cols * rows - 1

NoEdgesNoChange == (pc = "done" /\ Len(mst_edges) = 0) => grid_values = grid0

\* C8 as claimed: every grid element read or written is inside the grid, an
\* edge whose cutoff-expanded bounding box does not meet the grid visits no
\* cell, and a call with no edges leaves the grid unchanged.
C8_AsClaimed ==
    /\ AccessesInRange
    /\ \A k \in DoneEdges :
          BoxMissesGrid(mst_edges[k + 1], RMul(<<9, 1>>, ContractSigmaSq(mst_edges[k + 1])))
             => ~\E v \in visitLog : v[1] = k
    /\ NoEdgesNoChange

\* C8 amended: every grid element read or written is inside the grid, an edge
\* whose cutoff-expanded bounding box does not meet the grid reads and writes
\* no grid element, and a call with no edges leaves the grid unchanged.
C8_NoFault ==
    /\ AccessesInRange
    /\ \A v \in visitLog : InGrid(v[2], v[3])
    /\ \A k \in DoneEdges :
          BoxMissesGrid(mst_edges[k + 1], RMul(<<9, 1>>, ContractSigmaSq(mst_edges[k + 1])))
             => ~\E a \in accessLog : a[1] = k
    /\ NoEdgesNoChange

C8_Witness ==
    /\ pc = "done"
    /\ Len(mst_edges) = 3 \/ Len(mst_edges) = 2
    /\ \E k \in DoneEdges :
          /\ BoxMissesGrid(mst_edges[k + 1], RMul(<<9, 1>>, ContractSigmaSq(mst_edges[k + 1])))
          /\ \E v \in visitLog : v[1] = k
    /\ \E k \in DoneEdges : mst_edges[k + 1][1] = mst_edges[k + 1][3]
                              /\ mst_edges[k + 1][2] = mst_edges[k + 1][4]
    /\ accessLog # {}
    /\ C8_NoFault

\* The grid a scan of all rows x cols cells gives for edge e from grid g:
\* exp(-d^2 / (2 * bridgeSigma^2)) added wherever d^2 < cutoff^2.
FullScanEdge(g, e) ==
    CHOOSE res \in
        { [ix \in DOMAIN g |->
              LET d == CellDistSq(ix \div cols, ix % cols, e)
              IN  IF RLt(d, cs)
                  THEN Accumulate(g[ix], ExpNeg(RDiv(d, RMul(<<2, 9>>, cs))))
                  ELSE g[ix]] :
          cs \in {RMul(<<9, 1>>, ContractSigmaSq(e))} } : TRUE

RECURSIVE FullScan(_, _)
FullScan(g, es) ==
    IF es = <<>> THEN g ELSE FullScan(FullScanEdge(g, Head(es)), Tail(es))

\* C9: for every edge, every cell of the grid whose sample point has squared
\* clamped-projection distance < (3 * bridgeSigma)^2 is inside the visited
\* range, and the grid is the one a scan of all cells for each edge gives.
C9_PruningLosesNothing ==
    /\ \A k \in DoneEdges :
          \A cs \in {RMul(<<9, 1>>, ContractSigmaSq(mst_edges[k + 1]))} :
            \A cell \in GridCells :
               RLt(CellDistSq(cell[1], cell[2], mst_edges[k + 1]), cs)
                  => <<k, cell[1], cell[2]>> \in visitLog
    /\ grid_values = FullScan(grid0, SubSeq(mst_edges, 1, i))

C9_Witness ==
    /\ pc = "done"
    /\ Len(mst_edges) = 1
    /\ mst_edges[1] = Edge(-21, -1, 0, 1)
    /\ cols = 12
    /\ \E a, b \in GridCells :
          /\ <<0, a[1], a[2]>> \notin visitLog
          /\ <<0, b[1], b[2]>> \in visitLog
          /\ grid_values[b[1] * cols + b[2]] # grid0[b[1] * cols + b[2]]
    /\ \E b \in GridCells :
          /\ <<0, b[1], b[2]>> \in visitLog
          /\ grid_values[b[1] * cols + b[2]] = grid0[b[1] * cols + b[2]]
    /\ C9_PruningLosesNothing

====
